---- MODULE Spec2Model ----
(***************************************************************************)
(* Single-slide generation pipeline of banana-slides (planner, asset       *)
(* production, slide rendering, export), in its three variants:            *)
(*   "ppt_agent"          backend/services/ai_providers/image/ppt_agent.py *)
(*   "openai_provider"    .../image/openai_provider.py                     *)
(*   "ppt_agent_provider" .../image/ppt_agent_provider.py                  *)
(* One generation request is followed through its stages; pc is the        *)
(* position of the request inside generate_single_page_ppt/generate_image. *)
(*                                                                         *)
(* Lengths are in units of 508 EMU (the greatest common divisor of         *)
(* Inches(0.01) = 9144 EMU and Pt(1) = 12700 EMU), so every Inches()/Pt()  *)
(* constant of the source is an integer.  Python's true division "/" is    *)
(* modelled by exact rationals [n, d]; a Python exception is modelled by   *)
(* the err field of an operator's result.                                  *)
(***************************************************************************)
EXTENDS Integers, Sequences, FiniteSets, TLC

\* ------------------------------------------------------------------------
\* Bounds of the model
\* ------------------------------------------------------------------------
MaxItems == 10

MaxSpecs == 2

MaxImages == 2

MaxPartial == 2
\* calls of the ProductionAgent on one assets directory
MaxCalls == 3
\* seconds the clock advances while concurrent requests run
MaxClock == 1
\* the longest list of paths handed to ExportService
MaxPaths == 3

\* ------------------------------------------------------------------------
\* Python values
\* ------------------------------------------------------------------------
None == "None"

NoErr == "none"

Variants == {"ppt_agent", "openai_provider", "ppt_agent_provider"}

\* dict.get(k, default)
Get(d, k, default) == IF k \in DOMAIN d THEN d[k] ELSE default

\* d[k] raises KeyError when k is missing
HasKey(d, k) == k \in DOMAIN d

\* Python truthiness of a dict or list, modelled as a sequence ({} and [] are falsy)
Truthy(v) == Len(v) > 0

\* an unset local_path (JSON null); a path is a non-empty tuple
NoPath == <<>>

Max(a, b) == IF a >= b THEN a ELSE b

\* math.ceil(count / c) for count >= 0, c > 0
Ceil(count, c) == (count + c - 1) \div c

\* ------------------------------------------------------------------------
\* Exact rational arithmetic for Python's float lengths
\* ------------------------------------------------------------------------
Abs(n) == IF n < 0 THEN -n ELSE n

RECURSIVE GCD(_, _)
GCD(a, b) == IF b = 0 THEN a ELSE GCD(b, a % b)

Norm(n, d) == LET g == GCD(Abs(n), d) IN [n |-> n \div g, d |-> d \div g]

R(i) == [n |-> i, d |-> 1]

RAdd(a, b) == Norm(a.n * b.d + b.n * a.d, a.d * b.d)

RSub(a, b) == Norm(a.n * b.d - b.n * a.d, a.d * b.d)

\* a * k and a / k for an integer k (k > 0 for RDiv)
RMul(a, k) == Norm(a.n * k, a.d)

RDiv(a, k) == Norm(a.n, a.d * k)

RLe(a, b) == a.n * b.d <= b.n * a.d

RLt(a, b) == a.n * b.d < b.n * a.d

\* pptx.util.Inches(h / 100) and Pt(p) in units of 508 EMU
Inches(h) == 18 * h

Pt(p) == 25 * p

\* prs.slide_width = Inches(16), prs.slide_height = Inches(9)
SlideW == Inches(1600)

SlideH == Inches(900)

\* ------------------------------------------------------------------------
\* Draw calls.  A result of a rendering operator is [err, shapes]: the draw
\* calls issued so far and the exception that ended it (NoErr if none).
\* ------------------------------------------------------------------------
Shape(kind, x, y, w, h, text) ==
    [kind |-> kind, x |-> x, y |-> y, w |-> w, h |-> h, text |-> text]

Ok(shapes) == [err |-> NoErr, shapes |-> shapes]

Raise(e, shapes) == [err |-> e, shapes |-> shapes]

\* os.path.exists(img_path) for the value of asset_map.get(item['id'])
HasThumb(item, asset_map, files) ==
    /\ item["id"] \in DOMAIN asset_map
    /\ asset_map[item["id"]] # NoPath
    /\ asset_map[item["id"]] \in files

\* the spec rows of _draw_card_content (ppt_agent.py, openai_provider.py):
\* rows idx..len(specs)-1, idx counted from 0 as in the source
RECURSIVE SpecRows(_, _, _, _, _, _)
SpecRows(idx, specs, x, w, cursor_y, row_h) ==
    IF idx >= Len(specs) THEN <<>>
    ELSE LET ry == RAdd(cursor_y, RMul(row_h, idx))
             w04 == RDiv(RMul(w, 2), 5)
             w055 == RDiv(RMul(w, 11), 20)
             bar == IF idx % 2 = 0
                    THEN <<Shape("row_bar", RAdd(x, R(Pt(2))), ry, RSub(w, R(Pt(4))), row_h, "")>>
                    ELSE <<>>
         IN bar \o
            <<Shape("row_key", RAdd(x, R(Inches(20))), ry, w04, row_h, specs[idx + 1][1]),
              Shape("row_val", RAdd(RAdd(x, R(Inches(20))), w04), ry, w055, row_h, specs[idx + 1][2])>>
            \o SpecRows(idx + 1, specs, x, w, cursor_y, row_h)

\* SlideRenderer._draw_card_content of ppt_agent.py and openai_provider.py;
\* the two differ only in the "if desc_h < 0" clamp of openai_provider.py
draw_card_content(v, item, x, y, w, h, asset_map, files, is_timeline) ==
    LET card == Shape("card", x, y, w, h, "")
        cursor_y0 == RAdd(y, R(Inches(20)))
    IN IF ~is_timeline /\ ~HasKey(item, "id") THEN Raise("KeyError", <<card>>)
       ELSE
       LET has_img == ~is_timeline /\ HasThumb(item, asset_map, files)
           isz == Inches(80)
           icon_w == IF has_img THEN isz + Inches(20) ELSE Inches(0)
           pic == IF has_img
                  THEN <<Shape("thumb", RAdd(x, R(Inches(20))), cursor_y0, R(isz), R(isz), "")>>
                  ELSE <<>>
           title_x == IF is_timeline THEN RAdd(x, R(Inches(20)))
                      ELSE RAdd(x, R(Inches(20) + icon_w))
           title_w == IF is_timeline THEN RSub(w, R(Inches(40)))
                      ELSE RSub(w, R(icon_w + Inches(30)))
           tb_t == Shape("title", title_x, cursor_y0, title_w, R(Inches(80)), Get(item, "title", ""))
           cursor_y1 == RAdd(cursor_y0, R(IF is_timeline THEN Inches(70) ELSE Inches(80)))
           specs == Get(item, "specs", <<>>)
           desc_h0 == IF ~Truthy(specs)
                      THEN RSub(RSub(RAdd(y, h), cursor_y1), R(Inches(20)))
                      ELSE R(Inches(80))
           desc_h == IF v = "openai_provider" /\ RLt(desc_h0, R(0)) THEN R(Inches(50)) ELSE desc_h0
           tb_d == Shape("desc", RAdd(x, R(Inches(20))), cursor_y1, RSub(w, R(Inches(40))), desc_h,
                         Get(item, "desc", ""))
           cursor_y2 == RAdd(cursor_y1, R(Inches(80)))
           sep == Shape("sep", RAdd(x, R(Inches(10))), cursor_y2, RSub(w, R(Inches(20))), R(0), "")
           cursor_y3 == RAdd(cursor_y2, R(Inches(10)))
           rem_h == RSub(RSub(RAdd(y, h), cursor_y3), R(Inches(10)))
           rows == IF RLt(R(0), rem_h)
                   THEN SpecRows(0, specs, x, w, cursor_y3, RDiv(rem_h, Len(specs)))
                   ELSE <<>>
       IN Ok(<<card>> \o pic \o <<tb_t, tb_d>> \o
             (IF Truthy(specs) THEN <<sep>> \o rows ELSE <<>>))

\* ------------------------------------------------------------------------
\* Layout
\* ------------------------------------------------------------------------
\* columns and rows of SlideRenderer.render_grid, ppt_agent.py
grid_dims_agent(count) ==
    IF count <= 3 THEN <<count, 1>>
    ELSE IF count = 4 THEN <<2, 2>>
    ELSE <<3, Ceil(count, 3)>>

\* columns and rows of SlideRenderer.render_grid, openai_provider.py
\* (reached only with count > 0: count == 0 returns before)
grid_dims_openai(count) ==
    LET cr == IF count <= 3 THEN <<count, 1>>
              ELSE IF count = 4 THEN <<2, 2>>
              ELSE <<3, Ceil(count, 3)>>
    IN <<Max(1, cr[1]), Max(1, cr[2])>>

\* columns and rows of SlideRenderer._greedy_grid, ppt_agent_provider.py
grid_dims_provider(count) ==
    IF count = 3 THEN <<3, 1>>
    ELSE IF count = 4 THEN <<2, 2>>
    ELSE IF count \in {5, 6} THEN <<3, 2>>
    ELSE <<3, Ceil(count, 3)>>

GridDims(v, count) ==
    CASE v = "ppt_agent" -> grid_dims_agent(count)
      [] v = "openai_provider" -> grid_dims_openai(count)
      [] v = "ppt_agent_provider" -> grid_dims_provider(count)

\* start_y of the grid: Inches(1.6) in render_grid, Inches(1.8) passed to _greedy_grid
GridStartY(v) == IF v = "ppt_agent_provider" THEN Inches(180) ELSE Inches(160)

GridMargin == Inches(50)

GridGap == Inches(30)

\* cell i (from 0) of a c x r grid: <<x, y, cw, ch>>; needs c > 0 and r > 0
GridCell(v, c, r, i) ==
    LET cw == RDiv(R(SlideW - GridMargin * 2 - GridGap * (c - 1)), c)
        ch == RDiv(R(SlideH - GridStartY(v) - GridMargin - GridGap * (r - 1)), r)
    IN <<RAdd(R(GridMargin), RMul(RAdd(cw, R(GridGap)), i % c)),
         RAdd(R(GridStartY(v)), RMul(RAdd(ch, R(GridGap)), i \div c)),
         cw, ch>>

\* the loop "for i, item in enumerate(items)": results[k] is the result of the
\* loop body for item k; the first exception ends the loop
\* the loop over the items taken from the last item to the first
RECURSIVE ForEachBackwards(_, _)
ForEachBackwards(k, results) ==
    IF k > Len(results) THEN Ok(<<>>)
    ELSE LET r == results[Len(results) + 1 - k]
         IN IF r.err # NoErr THEN r
            ELSE LET rest == ForEachBackwards(k + 1, results)
                 IN [err |-> rest.err, shapes |-> r.shapes \o rest.shapes]

RECURSIVE ForEach(_, _)
ForEach(k, results) ==
    IF k > Len(results) THEN Ok(<<>>)
    ELSE IF results[k].err # NoErr THEN results[k]
    ELSE LET rest == ForEach(k + 1, results)
         IN [err |-> rest.err, shapes |-> results[k].shapes \o rest.shapes]

\* SlideRenderer.render_grid of ppt_agent.py and openai_provider.py
render_grid(v, items, asset_map, files) ==
    LET count == Len(items)
        cr == GridDims(v, count)
        c == cr[1]
        r == cr[2]
        Card(i) == LET cell == GridCell(v, c, r, i)
                   IN draw_card_content(v, items[i + 1], cell[1], cell[2], cell[3], cell[4],
                                        asset_map, files, FALSE)
    IN IF v = "openai_provider" /\ count = 0 THEN Ok(<<>>)
       ELSE IF c = 0 \/ r = 0 THEN Raise("ZeroDivisionError", <<>>)
       ELSE ForEach(1, [k \in 1..count |-> Card(k - 1)])

\* SlideRenderer._greedy_grid of ppt_agent_provider.py: the slots, or the exception
greedy_grid(count) ==
    LET cr == grid_dims_provider(count)
    IN IF cr[1] = 0 \/ cr[2] = 0 THEN [err |-> "ZeroDivisionError", slots |-> <<>>]
       ELSE [err |-> NoErr,
             slots |-> [k \in 1..count |-> GridCell("ppt_agent_provider", cr[1], cr[2], k - 1)]]

\* the spec rows of render_grid, ppt_agent_provider.py
RECURSIVE ProviderRows(_, _, _, _, _, _)
ProviderRows(idx, specs, x, w, sy, rh) ==
    IF idx >= Len(specs) THEN <<>>
    ELSE LET cur_y == RAdd(RAdd(sy, R(Inches(10))), RMul(rh, idx))
         IN <<Shape("row_key", RAdd(x, R(Inches(20))), cur_y, R(Inches(150)), rh, specs[idx + 1][1]),
              Shape("row_val", RAdd(x, R(Inches(160))), cur_y, RSub(w, R(Inches(180))), rh,
                    specs[idx + 1][2])>>
            \o ProviderRows(idx + 1, specs, x, w, sy, rh)

\* the body of the loop of SlideRenderer.render_grid, ppt_agent_provider.py
provider_card(item, x, y, w, h, asset_map, files) ==
    LET specs == Get(item, "specs", <<>>)
        has_specs == Len(specs) > 0
        card == Shape("card", x, y, w, h, "")
        isz == IF has_specs THEN Inches(80) ELSE Inches(120)
        cy == RAdd(y, R(Inches(20)))
    IN IF ~HasKey(item, "id") THEN Raise("KeyError", <<card>>)
       ELSE
       LET has_img == HasThumb(item, asset_map, files)
           pic == IF has_img
                  THEN <<Shape("thumb", RAdd(x, R(Inches(20))), cy, R(isz), R(isz), "")>>
                  ELSE <<>>
           tx == IF has_img THEN RAdd(x, R(isz + Inches(40))) ELSE RAdd(x, R(Inches(20)))
           tb_t == Shape("title", tx, cy, RSub(w, RSub(tx, x)), R(Inches(60)), Get(item, "title", ""))
           tb_d == Shape("desc", tx, RAdd(cy, R(Inches(40))),
                         RSub(RSub(w, RSub(tx, x)), R(Inches(20))), R(Inches(80)),
                         Get(item, "desc", ""))
           sy == RAdd(cy, R(Inches(120)))
           sep == Shape("sep", RAdd(x, R(Inches(20))), sy, RSub(w, R(Inches(40))), R(0), "")
           rh == RDiv(RSub(RSub(h, RSub(sy, y)), R(Inches(30))), Len(specs))
       IN Ok(<<card>> \o pic \o <<tb_t, tb_d>> \o
             (IF has_specs THEN <<sep>> \o ProviderRows(0, specs, x, w, sy, rh) ELSE <<>>))

\* SlideRenderer.render_grid of ppt_agent_provider.py
render_grid_provider(items, asset_map, files) ==
    LET g == greedy_grid(Len(items))
        Card(i) == LET slot == g.slots[i + 1]
                   IN provider_card(items[i + 1], slot[1], slot[2], slot[3], slot[4],
                                    asset_map, files)
    IN IF g.err # NoErr THEN Raise(g.err, <<>>)
       ELSE ForEach(1, [k \in 1..Len(items) |-> Card(k - 1)])

\* the slot width of render_timeline taken over the whole canvas width
timeline_slot_w_canvas(count) == RDiv(R(SlideW), count)

\* slot_w = (self.W - margin * 2) / count
timeline_slot_w(count) == RDiv(R(SlideW - Inches(50) * 2), count)

\* SlideRenderer.render_timeline of ppt_agent.py and openai_provider.py
render_timeline(v, items, asset_map, files) ==
    LET count == Len(items)
        margin == Inches(50)
        line_y == Inches(300)
        line == Shape("spine", R(margin), R(line_y), R(SlideW - margin * 2), R(Inches(6)), "")
        Card(i) ==
            LET slot_w == timeline_slot_w(count)
                cx == RAdd(RAdd(R(margin), RMul(slot_w, i)), RDiv(slot_w, 2))
                dot_out == Shape("dot_out", RSub(cx, R(Inches(15))), R(line_y - Inches(12)),
                                 R(Inches(30)), R(Inches(30)), "")
                dot_in == Shape("dot_in", RSub(cx, R(Inches(8))), R(line_y - Inches(5)),
                                R(Inches(16)), R(Inches(16)), "")
                item == items[i + 1]
                isz == Inches(180)
                pic == IF HasThumb(item, asset_map, files)
                       THEN <<Shape("thumb", RSub(cx, RDiv(R(isz), 2)),
                                    R(line_y - isz - Inches(40)), R(isz), R(isz), "")>>
                       ELSE <<>>
                card_x == RAdd(RSub(cx, RDiv(slot_w, 2)), R(Inches(10)))
                card_y == line_y + Inches(40)
                card_w == RSub(slot_w, R(Inches(20)))
                card_h == SlideH - card_y - Inches(50)
                card == draw_card_content(v, item, card_x, R(card_y), card_w, R(card_h),
                                          asset_map, files, TRUE)
            IN IF ~HasKey(item, "id") THEN Raise("KeyError", <<dot_out, dot_in>>)
               ELSE [err |-> card.err, shapes |-> <<dot_out, dot_in>> \o pic \o card.shapes]
        cards == ForEach(1, [k \in 1..count |-> Card(k - 1)])
    IN IF v = "openai_provider" /\ count = 0 THEN Ok(<<>>)
       ELSE IF count = 0 THEN Raise("ZeroDivisionError", <<line>>)
       ELSE [err |-> cards.err, shapes |-> <<line>> \o cards.shapes]

\* SlideRenderer.setup_base: the background picture when the background asset
\* exists (ppt_agent.py, openai_provider.py), a filled rectangle otherwise
BgPath == <<"tech_bg_v3.png">>

setup_base(v, files) ==
    IF v # "ppt_agent_provider" /\ BgPath \in files
    THEN <<Shape("bg_picture", R(0), R(0), R(SlideW), R(SlideH), "")>>
    ELSE <<Shape("bg_rect", R(0), R(0), R(SlideW), R(SlideH), "")>>

\* SlideRenderer.draw_header
draw_header(v, title, subtitle) ==
    LET p == v = "ppt_agent_provider"
        bar == Shape("header_bar", R(Inches(50)), R(Inches(40)), R(Inches(15)),
                     R(IF p THEN Inches(80) ELSE Inches(90)), "")
        tb == Shape("header_title", R(Inches(80)), R(IF p THEN Inches(40) ELSE Inches(35)),
                    R(SlideW - Inches(100)), R(Inches(100)), title)
        tb_s == Shape("header_subtitle", R(Inches(80)), R(Inches(110)),
                      R(SlideW - Inches(100)), R(Inches(60)), subtitle)
    IN <<bar, tb>> \o (IF subtitle # "" THEN <<tb_s>> ELSE <<>>)

\* SlideRenderer.dispatch: [err, shapes, strategy], strategy the layout method
\* that was called ("none" when an exception came first)
dispatch(v, plan, asset_map, files) ==
    LET base == setup_base(v, files)
        Done(strategy, res) ==
            [err |-> res.err, shapes |-> res.shapes, strategy |-> strategy]
    IN IF ~HasKey(plan, "content") THEN Done("none", Raise("KeyError", base))
       ELSE
       LET content == plan["content"]
           head == base \o draw_header(v, Get(content, "main_title", ""), Get(content, "subtitle", ""))
           With(res) == [err |-> res.err, shapes |-> head \o res.shapes]
       IN IF v = "ppt_agent_provider"
          THEN Done("grid", With(render_grid_provider(Get(content, "items", <<>>), asset_map, files)))
          ELSE IF ~HasKey(plan, "meta") THEN Done("none", Raise("KeyError", head))
          ELSE LET layout == Get(plan["meta"], "layout_type", "grid")
               IN IF ~HasKey(content, "items") THEN Done("none", Raise("KeyError", head))
                  ELSE IF layout = "timeline"
                  THEN Done("timeline", With(render_timeline(v, content["items"], asset_map, files)))
                  ELSE Done("grid", With(render_grid(v, content["items"], asset_map, files)))

\* ------------------------------------------------------------------------
\* Plans the planning collaborator can return
\* ------------------------------------------------------------------------
ItemKeys == {"id", "title", "desc", "specs", "tags"}

LayoutValues == {"grid", "timeline", "mindmap"}

\* a specs dict with n entries, in insertion order
SpecsOf(n) == [k \in 1..n |-> <<k, k>>]

\* item number i with the fields keys and n specs
ItemOf(i, keys, n) ==
    [k \in keys |->
        CASE k = "id" -> i
          [] k = "title" -> "title" \o ToString(i)
          [] k = "desc" -> "desc"
          [] k = "specs" -> SpecsOf(n)
          [] k = "tags" -> <<>>]

ImageOf(target) == [target_id |-> target, prompt |-> "prompt", local_path |-> NoPath]

\* layout is a value of layout_type or None for a meta without layout_type;
\* items is a sequence of items or None for a content without items
MetaOf(layout) ==
    IF layout = None THEN [k \in {"theme"} |-> "tech_blue"]
    ELSE [k \in {"layout_type", "theme"} |-> IF k = "layout_type" THEN layout ELSE "tech_blue"]

ContentOf(has_items, items) ==
    [k \in (IF has_items THEN {"main_title", "subtitle", "items"} ELSE {"main_title", "subtitle"}) |->
        CASE k = "main_title" -> "main" [] k = "subtitle" -> "sub" [] k = "items" -> items]

PlanOf(layout, has_items, items, images) ==
    [meta |-> MetaOf(layout), content |-> ContentOf(has_items, items),
     assets |-> [images |-> images]]

\* an image request that arrives with local_path already filled in
PresetImage(target) ==
    [target_id |-> target, prompt |-> "prompt", local_path |-> <<"preset", target>>]

\* targets of n image requests: one request per item, every request for item 1,
\* or the requests shifted so that the first one names an id of no item (0)
ImageTargets(n) == {[j \in 1..n |-> j], [j \in 1..n |-> 1], [j \in 1..n |-> j - 1]}

PlanInputs ==
    LET layouts == LayoutValues \cup {None}
        full == {PlanOf(l, TRUE, [i \in 1..n |-> ItemOf(i, ItemKeys, k)], <<>>) :
                    l \in layouts, n \in 0..MaxItems, k \in 0..MaxSpecs}
        partial == {PlanOf(l, TRUE, [i \in 1..n |-> ItemOf(i, ItemKeys \ {f}, 1)], <<>>) :
                    l \in layouts, n \in 1..MaxPartial, f \in ItemKeys}
        no_items == {PlanOf(l, FALSE, <<>>, <<>>) : l \in layouts}
        with_images == {PlanOf(l, TRUE, [i \in 1..2 |-> ItemOf(i, ItemKeys, k)],
                               [j \in 1..Len(t) |-> ImageOf(t[j])]) :
                    l \in {"grid", "timeline"}, k \in 0..1,
                    t \in UNION {ImageTargets(n) : n \in 1..MaxImages}}
        preset == {PlanOf(l, TRUE, [i \in 1..2 |-> ItemOf(i, ItemKeys, 0)], <<PresetImage(1)>>) :
                    l \in {"grid", "timeline"}}
    IN full \cup partial \cup no_items \cup with_images \cup preset

\* a JSON value that is not an object (a non-empty array)
NonObject == [json_array |-> <<1>>]

\* isinstance(p, dict)
IsDict(p) == "json_array" \notin DOMAIN p

\* valid JSON that has not the structure of a plan: an array, or a plan with
\* one of its three sections missing
MalformedPlans ==
    LET base == PlanOf("grid", TRUE, <<ItemOf(1, ItemKeys, 0)>>, <<>>)
    IN {NonObject} \cup
       {[k \in DOMAIN base \ {f} |-> base[k]] : f \in {"meta", "content", "assets"}}

\* ------------------------------------------------------------------------
\* Planner
\* ------------------------------------------------------------------------
\* generate_plan returns None on failure; None and the empty JSON object are
\* both the empty dict here: the callers only test "if not plan"
NoPlan == <<>>

\* a reply text of the collaborator is a sequence of tokens: a code fence with
\* or without the json tag, one JSON value, or text that is not JSON
FenceJson == [t |-> "fence_json"]

Fence == [t |-> "fence"]

Junk == [t |-> "junk"]

Json(value) == [t |-> "json", v |-> value]

\* content.replace(fence with json tag, "").replace(fence, "").strip()
StripFences(text) == SelectSeq(text, LAMBDA tok : tok.t \notin {"fence_json", "fence"})

\* json.loads(content): [err, value]
json_loads(content) ==
    IF Len(content) = 1 /\ content[1].t = "json"
    THEN [err |-> NoErr, value |-> content[1].v]
    ELSE [err |-> "JSONDecodeError", value |-> NoPlan]

\* the fallback plan of PlannerAgent.generate_plan, openai_provider.py
FallbackPlan ==
    [meta |-> [layout_type |-> "grid", theme |-> "tech_blue"],
     content |-> [main_title |-> "Generated Content", subtitle |-> "Analysis",
                  items |-> <<[id |-> 1, title |-> "Content", desc |-> "user_input",
                               specs |-> <<>>, tags |-> <<>>]>>],
     assets |-> [images |-> <<>>]]

\* PlannerAgent.generate_plan; reply is [raises, text] of chat.completions.create
generate_plan(v, reply) ==
    LET failed == IF v = "openai_provider" THEN FallbackPlan ELSE NoPlan
        content == IF v = "openai_provider" THEN reply.text ELSE StripFences(reply.text)
        parsed == json_loads(content)
    IN IF reply.raises THEN failed
       ELSE IF parsed.err # NoErr THEN failed
       ELSE parsed.value

\* the plans that also come wrapped in code fences: those without image requests
FencedPlans == {p \in PlanInputs : Len(p["assets"]["images"]) = 0}

Replies ==
    {[raises |-> TRUE, text |-> <<>>]} \cup
    {[raises |-> FALSE, text |-> t] :
        t \in {<<Junk>>, <<FenceJson, Junk, Fence>>, <<Json(NoPlan)>>} \cup
              {<<Json(m)>> : m \in MalformedPlans} \cup
              {<<Json(p)>> : p \in PlanInputs} \cup
              UNION {{<<FenceJson, Json(p), Fence>>, <<Fence, Json(p), Fence>>} :
                        p \in FencedPlans}}

\* ------------------------------------------------------------------------
\* Asset production
\* ------------------------------------------------------------------------
\* os.path.join(assets_dir, f"{target_id}_{int(time.time())}.png")
AssetPath(target_id, time) == <<"asset", target_id, time>>

Stage(name, produced) == [stage |-> name, produced |-> produced]

\* outcome of the collaborators for one image request:
\*   cb:     "raises" | "none" | "image" (image_generator(prompt); "raises" also
\*           stands for img.save raising), used when a callback is given
\*   remote: "raises" | "non_success" | "success"
\*   tick:   the clock second changed since the previous request
Outcomes == [cb : {"raises", "none", "image"}, remote : {"raises", "non_success", "success"},
             tick : BOOLEAN]

\* _generate_qwen_api_image without the "return path" of the callback branch:
\* the remote backend is asked although the callback gave an image
generate_qwen_api_image_no_return(image_generator, o, path) ==
    LET callback == IF image_generator THEN <<Stage("callback", o.cb = "image")>> ELSE <<>>
        remote == <<Stage("remote", o.remote = "success")>>
    IN IF o.remote = "success" THEN [stages |-> callback \o remote, path |-> path]
       ELSE [stages |-> callback \o remote \o <<Stage("mock", TRUE)>>, path |-> path]

\* ProductionAgent._generate_qwen_api_image, ppt_agent.py: the stages called
\* and the returned path
generate_qwen_api_image(image_generator, o, path) ==
    LET callback == IF image_generator THEN <<Stage("callback", o.cb = "image")>> ELSE <<>>
        remote == <<Stage("remote", o.remote = "success")>>
    IN IF image_generator /\ o.cb = "image" THEN [stages |-> callback, path |-> path]
       ELSE IF o.remote = "success" THEN [stages |-> callback \o remote, path |-> path]
       ELSE [stages |-> callback \o remote \o <<Stage("mock", TRUE)>>, path |-> path]

\* ProductionAgent._generate_dalle_image, ppt_agent_provider.py
generate_dalle_image(o, path) ==
    IF o.remote = "success" THEN [stages |-> <<Stage("remote", TRUE)>>, path |-> path]
    ELSE [stages |-> <<Stage("remote", FALSE)>>, path |-> NoPath]

\* _create_local_pil_mock / _create_local_mock_image
create_local_mock(path) == [stages |-> <<Stage("mock", TRUE)>>, path |-> path]

\* the right-hand side of "path = ..." in produce_assets
resolve(v, use_mock, image_generator, o, path) ==
    CASE v = "openai_provider" -> create_local_mock(path)
      [] v = "ppt_agent" -> IF use_mock THEN create_local_mock(path)
                            ELSE generate_qwen_api_image(image_generator, o, path)
      [] v = "ppt_agent_provider" -> IF use_mock THEN create_local_mock(path)
                                     ELSE generate_dalle_image(o, path)

\* the seconds that passed from the start of the loop to request j
TimeAt(os, j) == Cardinality({i \in 1..j : os[i].tick})

\* the loop of produce_assets: per image request the stages called and the path
produce_each(v, use_mock, image_generator, images, os, t0) ==
    [j \in 1..Len(images) |->
        resolve(v, use_mock, image_generator, os[j],
                AssetPath(Get(images[j], "target_id", None), t0 + TimeAt(os, j)))]

\* an update of the image requests that also clears their prompt
set_local_paths_and_prompt(images, res) ==
    [j \in 1..Len(images) |->
        IF res[j].path # NoPath
        THEN [k \in DOMAIN images[j] \cup {"local_path"} |->
                 IF k = "local_path" THEN res[j].path
                 ELSE IF k = "prompt" THEN "" ELSE images[j][k]]
        ELSE images[j]]

\* "if path: img['local_path'] = path"
set_local_paths(images, res) ==
    [j \in 1..Len(images) |->
        IF res[j].path # NoPath
        THEN [k \in DOMAIN images[j] \cup {"local_path"} |->
                 IF k = "local_path" THEN res[j].path ELSE images[j][k]]
        ELSE images[j]]

\* ------------------------------------------------------------------------
\* Exporter
\* ------------------------------------------------------------------------
\* The calls made to the automation bridge, in order; fail_at names the call
\* that raises ("none": no call raises).  "ppt.Visible = False" is not listed:
\* its exception is swallowed where it is raised.
BridgeCalls == <<"CoInitialize", "Dispatch", "Open", "Export", "Close">>

FailPoints == {"none", "CoInitialize", "Dispatch", "Open", "Export", "Close"}

CallIndex(name) == CHOOSE i \in 1..Len(BridgeCalls) : BridgeCalls[i] = name

\* call name is reached and does not raise
Passed(fail_at, name) == fail_at = "none" \/ CallIndex(name) < CallIndex(fail_at)

\* An export result: ret the returned value ("None", "True", "False", "path"),
\* raised an exception escaped, image the kind of file written to the preview
\* path ("none", "slide", "placeholder"), acquired/released the bridge handles
\* ("com": CoInitialize/CoUninitialize, "app": the application object, which is
\* dereferenced when the function returns, "pres": the opened presentation)
ExportResult(ret, image, acquired, released) ==
    [ret |-> ret, raised |-> FALSE, image |-> image, acquired |-> acquired, released |-> released]

\* PPTExporter.export, ppt_agent.py (with _create_placeholder_image)
export_agent(win32, fail_at, save_ok) ==
    LET placeholder == IF save_ok THEN "placeholder" ELSE "none"
    IN IF ~win32 THEN ExportResult("None", placeholder, {}, {})
       ELSE LET acquired == {h \in {"com", "app", "pres"} :
                                Passed(fail_at, CASE h = "com" -> "CoInitialize"
                                                  [] h = "app" -> "Dispatch"
                                                  [] h = "pres" -> "Open")}
                released == (acquired \cap {"com", "app"}) \cup
                            (IF Passed(fail_at, "Close") THEN {"pres"} ELSE {})
                image == IF fail_at = "none" THEN "slide"
                         ELSE IF save_ok THEN "placeholder"
                         ELSE IF Passed(fail_at, "Export") THEN "slide"
                         ELSE "none"
            IN ExportResult("None", image, acquired, released)

\* PPTExporter.export, openai_provider.py (no COM initialization)
export_openai(win32, fail_at, save_ok) ==
    IF ~win32 THEN ExportResult(IF save_ok THEN "True" ELSE "False",
                                IF save_ok THEN "placeholder" ELSE "none", {}, {})
    ELSE LET acquired == {h \in {"app", "pres"} :
                             Passed(fail_at, IF h = "app" THEN "Dispatch" ELSE "Open")}
             released == (acquired \cap {"app"}) \cup
                         (IF Passed(fail_at, "Close") THEN {"pres"} ELSE {})
         IN ExportResult(IF fail_at = "none" THEN "True" ELSE "False",
                         IF Passed(fail_at, "Export") THEN "slide" ELSE "none",
                         acquired, released)

\* PPTExporter.export_first_slide_as_jpg, ppt_agent_provider.py (no COM
\* initialization; Close is called in the finally clause)
export_provider(win32, fail_at) ==
    IF ~win32 THEN ExportResult("None", "none", {}, {})
    ELSE LET acquired == {h \in {"app", "pres"} :
                             Passed(fail_at, IF h = "app" THEN "Dispatch" ELSE "Open")}
             released == (acquired \cap {"app"}) \cup
                         (IF "pres" \in acquired /\ fail_at # "Close" THEN {"pres"} ELSE {})
         IN ExportResult(IF Passed(fail_at, "Export") THEN "path" ELSE "None",
                         IF Passed(fail_at, "Export") THEN "slide" ELSE "none",
                         acquired, released)

\* the fail points a variant's export can meet
FailPointsOf(v) == IF v = "ppt_agent" THEN FailPoints ELSE FailPoints \ {"CoInitialize"}

export(v, win32, fail_at, save_ok) ==
    CASE v = "ppt_agent" -> export_agent(win32, fail_at, save_ok)
      [] v = "openai_provider" -> export_openai(win32, fail_at, save_ok)
      [] v = "ppt_agent_provider" -> export_provider(win32, fail_at)

\* ------------------------------------------------------------------------
\* One generation request
\* ------------------------------------------------------------------------
VARIABLES
    variant,          \* the pipeline variant that serves the request
    WIN32_AVAILABLE,  \* whether win32com could be imported
    pc,               \* position of the request in the pipeline
    reply,            \* what the planning call did: [raises, text]
    reqs,             \* requests served at the same time: [clock, req, written]
    plan,             \* the plan (final_plan after asset production)
    use_mock,         \* ProductionAgent.use_mock
    files,            \* the paths that exist in the request's directories
    calls,            \* per image request, the generation stages called
    bg_calls,         \* the calls of _create_tech_background_asset: [wrote, path]
    now,              \* int(time.time()), counted from the start of the request
    asset_map,        \* item id -> local path
    shapes,           \* the draw calls on the slide, in order
    strategy,         \* the layout method dispatch called
    err,              \* the exception that ended rendering, NoErr if none
    bridge,           \* what the exporter met: [fail_at, save_ok]
    exported,         \* the result of the exporter
    result,           \* what the request returned to its caller
    svc               \* a call of ExportService: [op, paths, output_file, disk, out]

vars == <<svc, variant, WIN32_AVAILABLE, pc, reqs, reply, plan, use_mock, files, calls, bg_calls, now,
          asset_map, shapes, strategy, err, bridge, exported, result>>

PptPath == <<"pptx">>

JsonPath == <<"json">>

PreviewPath == <<"preview">>

Pending == [kind |-> "pending"]

NoReply == [raises |-> FALSE, text |-> <<>>]

NoReqs == [clock |-> 0, req |-> <<>>, written |-> {}]

NoCall == [op |-> "none", paths |-> <<>>, output_file |-> None, disk |-> {},
           out |-> [err |-> NoErr, ret |-> [kind |-> "pending"], written |-> {}]]

NoBridge == [fail_at |-> "none", save_ok |-> TRUE]

NoExport == [ret |-> "pending", raised |-> FALSE, image |-> "none", acquired |-> {}, released |-> {}]

\* how a failure of stage what ends the request:
\*   ppt_agent: planning and saving return {"status": "error"}, anything else escapes
\*   openai_provider: the outer except re-raises
\*   ppt_agent_provider: returns None
Failure(v, what) ==
    CASE v = "ppt_agent" ->
            IF what \in {"planning", "save"} THEN [kind |-> "status", status |-> "error", stage |-> what]
            ELSE [kind |-> "raised", stage |-> what]
      [] v = "openai_provider" -> [kind |-> "raised", stage |-> what]
      [] v = "ppt_agent_provider" -> [kind |-> "None", stage |-> what]

Init ==
    /\ variant \in Variants
    /\ WIN32_AVAILABLE \in BOOLEAN
    /\ pc = "start"
    /\ reqs = NoReqs
    /\ svc = NoCall
    /\ reply = NoReply
    /\ plan = NoPlan
    /\ use_mock = FALSE
    /\ files = {}
    /\ calls = <<>>
    /\ bg_calls = <<>>
    /\ now = 0
    /\ asset_map = <<>>
    /\ shapes = <<>>
    /\ strategy = "none"
    /\ err = NoErr
    /\ bridge = NoBridge
    /\ exported = NoExport
    /\ result = Pending

\* planner.generate_plan(prompt), the test "if not plan" and, in ppt_agent.py,
\* the log line that reads plan['meta']
GeneratePlan ==
    /\ pc = "start"
    /\ \E r \in Replies :
          LET p == generate_plan(variant, r)
          IN /\ reply' = r
             /\ IF DOMAIN p = {}
                THEN /\ pc' = "done"
                     /\ result' = Failure(variant, "planning")
                     /\ plan' = plan
                ELSE IF variant = "ppt_agent" /\ (~IsDict(p) \/ ~HasKey(p, "meta"))
                THEN /\ pc' = "done"
                     /\ result' = Failure(variant, "strategy_log")
                     /\ plan' = p
                ELSE /\ pc' = "planned"
                     /\ plan' = p
                     /\ result' = result
    /\ UNCHANGED <<svc, variant, WIN32_AVAILABLE, reqs, use_mock, files, calls, bg_calls, now,
                   asset_map, shapes, strategy, err, bridge, exported>>

\* use_mock as the variant's ProductionAgent can be constructed; produce_assets of
\* openai_provider.py never reads it
UseMockChoices(v) == IF v = "openai_provider" THEN {FALSE} ELSE BOOLEAN

\* whether a callback is given: only ppt_agent.py takes one, and reads it only
\* when use_mock is false
CallbackChoices(v, um) == IF v = "ppt_agent" /\ ~um THEN BOOLEAN ELSE {FALSE}

\* the outcomes that the stages called for one request can have (a stage that
\* is not called has one outcome)
OutcomesOf(v, um, image_generator) ==
    {o \in Outcomes :
        /\ (v = "ppt_agent" /\ ~um /\ image_generator) \/ o.cb = "none"
        /\ (v # "openai_provider" /\ ~um) \/ o.remote = "non_success"}

\* ProductionAgent._create_tech_background_asset on a directory holding the
\* files fs, writing the file whatever the directory holds
create_tech_background_asset_always(fs) == [wrote |-> TRUE, path |-> BgPath]

\* ProductionAgent._create_tech_background_asset on a directory holding the
\* files fs: whether the file is written, and the returned path
create_tech_background_asset(fs) == [wrote |-> BgPath \notin fs, path |-> BgPath]

\* ProductionAgent.produce_assets(plan) of an agent on the request's directory
produce_assets ==
    \E um \in UseMockChoices(variant) :
    \E image_generator \in CallbackChoices(variant, um) :
       LET images == Get(Get(plan, "assets", <<>>), "images", <<>>)
       IN \E os \in [1..Len(images) -> OutcomesOf(variant, um, image_generator)] :
          LET res == produce_each(variant, um, image_generator, images, os, now)
              bg == create_tech_background_asset(files)
              has_bg == variant # "ppt_agent_provider"
          IN /\ use_mock' = um
             /\ calls' = [j \in 1..Len(images) |-> res[j].stages]
             /\ bg_calls' = IF has_bg THEN Append(bg_calls, bg) ELSE bg_calls
             /\ files' = files \cup (IF has_bg THEN {bg.path} ELSE {}) \cup
                         {res[j].path : j \in {i \in 1..Len(images) : res[i].path # NoPath}}
             /\ plan' = IF Len(images) = 0 THEN plan
                        ELSE [plan EXCEPT !["assets"]["images"] = set_local_paths(images, res)]
             /\ now' = now + TimeAt(os, Len(images))

\* producer.produce_assets(plan); a plan that is no dict has no get method:
\* AttributeError, after the background asset was created
ProduceAssets ==
    /\ pc = "planned"
    /\ IF IsDict(plan)
       THEN /\ produce_assets
            /\ pc' = "produced"
            /\ result' = result
       ELSE LET bg == create_tech_background_asset(files)
                has_bg == variant # "ppt_agent_provider"
            IN /\ bg_calls' = IF has_bg THEN Append(bg_calls, bg) ELSE bg_calls
               /\ files' = IF has_bg THEN files \cup {bg.path} ELSE files
               /\ pc' = "done"
               /\ result' = Failure(variant, "produce")
               /\ UNCHANGED <<plan, use_mock, calls, now>>
    /\ UNCHANGED <<svc, variant, WIN32_AVAILABLE, reqs, reply, asset_map, shapes, strategy, err, bridge, exported>>

\* asset_map in which the first request with a local_path wins for its target_id
build_asset_map_first(images) ==
    LET set == {j \in 1..Len(images) : Get(images[j], "local_path", NoPath) # NoPath}
    IN [t \in {images[j]["target_id"] : j \in set} |->
           images[CHOOSE j \in set : /\ images[j]["target_id"] = t
                                     /\ \A i \in set : images[i]["target_id"] = t => i >= j]["local_path"]]

\* asset_map: the last request with a local_path wins for its target_id
build_asset_map(images) ==
    LET set == {j \in 1..Len(images) : Get(images[j], "local_path", NoPath) # NoPath}
    IN [t \in {images[j]["target_id"] : j \in set} |->
           images[CHOOSE j \in set : /\ images[j]["target_id"] = t
                                     /\ \A i \in set : images[i]["target_id"] = t => i <= j]["local_path"]]

\* building asset_map (final_plan['assets'] raises KeyError when the plan has
\* no assets), then renderer.dispatch(final_plan, asset_map)
Render ==
    /\ pc = "produced"
    /\ IF ~HasKey(plan, "assets")
       THEN /\ asset_map' = asset_map
            /\ shapes' = shapes
            /\ strategy' = strategy
            /\ err' = "KeyError"
            /\ pc' = "done"
            /\ result' = Failure(variant, "render")
       ELSE LET am == build_asset_map(Get(plan["assets"], "images", <<>>))
                d == dispatch(variant, plan, am, files)
            IN /\ asset_map' = am
               /\ shapes' = d.shapes
               /\ strategy' = d.strategy
               /\ err' = d.err
               /\ IF d.err # NoErr
                  THEN pc' = "done" /\ result' = Failure(variant, "render")
                  ELSE pc' = "rendered" /\ result' = result
    /\ UNCHANGED <<svc, variant, WIN32_AVAILABLE, reqs, reply, plan, use_mock, files, calls, bg_calls, now,
                   bridge, exported>>

\* prs.save(ppt_output_path)
SavePpt ==
    /\ pc = "rendered"
    /\ \E ok \in BOOLEAN :
          IF ok THEN /\ files' = files \cup {PptPath}
                     /\ pc' = IF variant = "ppt_agent" THEN "saved" ELSE "export"
                     /\ result' = result
          ELSE /\ files' = files
               /\ pc' = "done"
               /\ result' = Failure(variant, "save")
    /\ UNCHANGED <<svc, variant, WIN32_AVAILABLE, reqs, reply, plan, use_mock, calls, bg_calls, now,
                   asset_map, shapes, strategy, err, bridge, exported>>

\* json.dump of final_plan and asset_map next to the document (ppt_agent.py only)
SaveSnapshot ==
    /\ pc = "saved"
    /\ variant = "ppt_agent"
    /\ \E ok \in BOOLEAN : files' = IF ok THEN files \cup {JsonPath} ELSE files
    /\ pc' = "export"
    /\ UNCHANGED <<svc, variant, WIN32_AVAILABLE, reqs, reply, plan, use_mock, calls, bg_calls, now,
                   asset_map, shapes, strategy, err, bridge, exported, result>>

\* the value returned after export if a missing snapshot counted as a failure
Outcome_snapshot_required(v, win32, e, fs) ==
    [kind |-> "status", status |-> IF JsonPath \in fs THEN "success" ELSE "error",
     json_path |-> JsonPath \in fs]

\* the value the request returns after export
Outcome(v, win32, e, fs) ==
    CASE v = "ppt_agent" ->
            [kind |-> "status", status |-> "success", json_path |-> JsonPath \in fs]
      [] v = "openai_provider" ->
            IF e.ret = "True" /\ PreviewPath \in fs
            THEN [kind |-> "image", image |-> e.image]
            ELSE [kind |-> "image", image |-> "blank"]
      [] v = "ppt_agent_provider" ->
            IF e.ret = "path" /\ PreviewPath \in fs
            THEN [kind |-> "image", image |-> e.image]
            ELSE IF ~win32 THEN [kind |-> "image", image |-> "mock"]
            ELSE [kind |-> "None", stage |-> "export"]

\* what the bridge and the filesystem can do to an export of variant v: the
\* call that raises (when the bridge is there) and whether img.save of the
\* placeholder succeeds (where the variant writes one in this situation)
BridgeChoices(v, win32) ==
    [fail_at : IF win32 THEN FailPointsOf(v) ELSE {"none"},
     save_ok : IF v = "ppt_agent" \/ (v = "openai_provider" /\ ~win32) THEN BOOLEAN ELSE {TRUE}]

\* exporter.export(...) / exporter.export_first_slide_as_jpg(...) and the return
\* of the request
Export ==
    /\ pc = "export"
    /\ \E b \in BridgeChoices(variant, WIN32_AVAILABLE) :
          LET e == export(variant, WIN32_AVAILABLE, b.fail_at, b.save_ok)
              fs == IF e.image # "none" THEN files \cup {PreviewPath} ELSE files
          IN /\ bridge' = b
             /\ exported' = e
             /\ files' = fs
             /\ result' = Outcome(variant, WIN32_AVAILABLE, e, fs)
    /\ pc' = "done"
    /\ UNCHANGED <<svc, variant, WIN32_AVAILABLE, reqs, reply, plan, use_mock, calls, bg_calls, now,
                   asset_map, shapes, strategy, err>>

Next ==
    \/ GeneratePlan
    \/ ProduceAssets
    \/ Render
    \/ SavePpt
    \/ SaveSnapshot
    \/ Export

Spec == Init /\ [][Next]_vars

\* ------------------------------------------------------------------------
\* Successive calls on one assets directory
\* ------------------------------------------------------------------------
\* The assets directory outlives a request (uploads/<project_id>/assets in
\* openai_provider.py, the caller's assets_output_dir in ppt_agent.py): the
\* ProductionAgent methods are called again and again on the same directory.
DirPlans ==
    {PlanOf("grid", TRUE, <<ItemOf(1, ItemKeys, 0)>>, images) :
        images \in {<<>>, <<ImageOf(1)>>, <<PresetImage(1)>>, <<ImageOf(1), PresetImage(1)>>}}

InitDir ==
    /\ variant \in {"ppt_agent", "openai_provider"}
    /\ WIN32_AVAILABLE = FALSE
    /\ pc = "agent"
    /\ reqs = NoReqs
    /\ svc = NoCall
    /\ reply = NoReply
    /\ plan \in DirPlans
    /\ use_mock = FALSE
    /\ files = {}
    /\ calls = <<>>
    /\ bg_calls = <<>>
    /\ now = 0
    /\ asset_map = <<>>
    /\ shapes = <<>>
    /\ strategy = "none"
    /\ err = NoErr
    /\ bridge = NoBridge
    /\ exported = NoExport
    /\ result = Pending

\* a call of _create_tech_background_asset alone
CreateTechBackgroundAsset ==
    /\ pc = "agent"
    /\ Len(bg_calls) < MaxCalls
    /\ LET bg == create_tech_background_asset(files)
       IN /\ bg_calls' = Append(bg_calls, bg)
          /\ files' = IF bg.wrote THEN files \cup {bg.path} ELSE files
    /\ UNCHANGED <<svc, variant, WIN32_AVAILABLE, reqs, reply, pc, plan, use_mock, calls, now, asset_map,
                   shapes, strategy, err, bridge, exported, result>>

\* a further call of produce_assets on the plan
ProduceAssetsAgain ==
    /\ pc = "agent"
    /\ Len(bg_calls) < MaxCalls
    /\ produce_assets
    /\ UNCHANGED <<svc, variant, WIN32_AVAILABLE, reqs, reply, pc, asset_map, shapes, strategy, err, bridge,
                   exported, result>>

NextDir ==
    \/ CreateTechBackgroundAsset
    \/ ProduceAssetsAgain

SpecDir == InitDir /\ [][NextDir]_vars

\* ------------------------------------------------------------------------
\* Requests served at the same time
\* ------------------------------------------------------------------------
\* generate_image of openai_provider.py and ppt_agent_provider.py called by two
\* callers at once.  Each request is followed through the files it writes:
\* its working directory and file names (fixed when it starts), the background
\* asset, one asset per image request, the document and the preview.
Requests == {1, 2}

\* project_id and page_id of a request of openai_provider.py ("" when not given)
ProjectIds == {"", "p1"}

PageIds == {"", "a", "b"}

\* a directory: uploads/<project_id>, its assets subdirectory, or
\* assets/ppt_agent_work/ppt_<second>
Dir(root, project, session) == [root |-> root, project |-> project, session |-> session]

\* a file: <dir>/<name>; name is [stem, id, time, ext] for "<stem>.<ext>",
\* "<id>_<time>.png" and "temp_<time>.<ext>"
File(dir, stem, id, time, ext) ==
    [dir |-> dir, stem |-> stem, id |-> id, time |-> time, ext |-> ext]

\* the directories and file names a request fixes when it starts at second t
\*   openai_provider.py: base_dir uploads/<project_id> (uploads when none),
\*     assets_dir <base_dir>/assets, <page_id>.pptx/.jpg or temp_<t>.pptx/.jpg
\*   ppt_agent_provider.py: session_dir <work_dir>/ppt_<t>, final_output.pptx,
\*     the preview next to it as final_output.jpg
request_paths(v, project_id, page_id, t) ==
    IF v = "openai_provider"
    THEN LET base_dir == Dir("uploads", project_id, -1)
             stem == IF page_id # "" THEN page_id ELSE "temp"
             time == IF page_id # "" THEN -1 ELSE t
         IN [assets_dir |-> Dir("uploads/assets", project_id, -1),
             ppt |-> File(base_dir, stem, -1, time, "pptx"),
             img |-> File(base_dir, stem, -1, time, "jpg")]
    ELSE LET session_dir == Dir("ppt_agent_work", "", t)
         IN [assets_dir |-> session_dir,
             ppt |-> File(session_dir, "final_output", -1, -1, "pptx"),
             img |-> File(session_dir, "final_output", -1, -1, "jpg")]

Idle == [pc |-> "idle"]

InitConc ==
    /\ variant \in {"openai_provider", "ppt_agent_provider"}
    /\ WIN32_AVAILABLE \in BOOLEAN
    /\ pc = "serving"
    /\ reqs = [clock |-> 0, req |-> [r \in Requests |-> Idle], written |-> {}]
    /\ svc = NoCall
    /\ reply = NoReply
    /\ plan = NoPlan
    /\ use_mock = TRUE
    /\ files = {}
    /\ calls = <<>>
    /\ bg_calls = <<>>
    /\ now = 0
    /\ asset_map = <<>>
    /\ shapes = <<>>
    /\ strategy = "none"
    /\ err = NoErr
    /\ bridge = NoBridge
    /\ exported = NoExport
    /\ result = Pending

\* the request r with its fields changed, and the files written by it added
Step(r, new, paths) ==
    reqs' = [reqs EXCEPT !.req[r] = new,
                         !.written = @ \cup {[path |-> f, by |-> r] : f \in paths}]

Written(f) == \E w \in reqs.written : w.path = f

\* int(time.time()) moves on
Tick ==
    /\ pc = "serving"
    /\ reqs.clock < MaxClock
    /\ reqs' = [reqs EXCEPT !.clock = @ + 1]
    /\ UNCHANGED <<svc, variant, WIN32_AVAILABLE, pc, reply, plan, use_mock, files, calls, bg_calls,
                   now, asset_map, shapes, strategy, err, bridge, exported, result>>

\* generate_image is called: directories and file names, then the plan with
\* its image requests (targets todo)
StartRequest(r) ==
    /\ pc = "serving"
    /\ reqs.req[r].pc = "idle"
    /\ \E project_id \in (IF variant = "openai_provider" THEN ProjectIds ELSE {""}) :
       \E page_id \in (IF variant = "openai_provider" THEN PageIds ELSE {""}) :
       \E todo \in {<<>>, <<1>>} :
          Step(r, [pc |-> "produce", todo |-> todo,
                   paths |-> request_paths(variant, project_id, page_id, reqs.clock)], {})
    /\ UNCHANGED <<svc, variant, WIN32_AVAILABLE, pc, reply, plan, use_mock, files, calls, bg_calls,
                   now, asset_map, shapes, strategy, err, bridge, exported, result>>

\* produce_assets: the background asset (openai_provider.py, when it is not
\* there yet), then the image requests one by one
ProduceStep(r) ==
    /\ pc = "serving"
    /\ reqs.req[r].pc = "produce"
    /\ LET q == reqs.req[r]
           bg == File(q.paths.assets_dir, "tech_bg_v3", -1, -1, "png")
       IN IF variant = "openai_provider" /\ ~Written(bg)
          THEN Step(r, q, {bg})
          ELSE IF Len(q.todo) > 0
          THEN Step(r, [q EXCEPT !.todo = Tail(@)],
                    {File(q.paths.assets_dir, "", Head(q.todo), reqs.clock, "png")})
          ELSE Step(r, [q EXCEPT !.pc = "save"], {})
    /\ UNCHANGED <<svc, variant, WIN32_AVAILABLE, pc, reply, plan, use_mock, files, calls, bg_calls,
                   now, asset_map, shapes, strategy, err, bridge, exported, result>>

\* prs.save of the document
SaveRequest(r) ==
    /\ pc = "serving"
    /\ reqs.req[r].pc = "save"
    /\ LET q == reqs.req[r]
       IN Step(r, [q EXCEPT !.pc = "export"], {q.paths.ppt})
    /\ UNCHANGED <<svc, variant, WIN32_AVAILABLE, pc, reply, plan, use_mock, files, calls, bg_calls,
                   now, asset_map, shapes, strategy, err, bridge, exported, result>>

\* the exporter writes the preview: the slide through the bridge, or the
\* placeholder of openai_provider.py; ppt_agent_provider.py writes nothing
\* without the bridge
ExportRequest(r) ==
    /\ pc = "serving"
    /\ reqs.req[r].pc = "export"
    /\ LET q == reqs.req[r]
       IN Step(r, [q EXCEPT !.pc = "done"],
               IF WIN32_AVAILABLE \/ variant = "openai_provider" THEN {q.paths.img} ELSE {})
    /\ UNCHANGED <<svc, variant, WIN32_AVAILABLE, pc, reply, plan, use_mock, files, calls, bg_calls,
                   now, asset_map, shapes, strategy, err, bridge, exported, result>>

NextConc ==
    \/ Tick
    \/ \E r \in Requests : StartRequest(r)
    \/ \E r \in Requests : ProduceStep(r)
    \/ \E r \in Requests : SaveRequest(r)
    \/ \E r \in Requests : ExportRequest(r)

SpecConc == InitConc /\ [][NextConc]_vars

\* ------------------------------------------------------------------------
\* Notions used by the properties
\* ------------------------------------------------------------------------
\* dispatch has been called (setup_base always draws)
RenderRan == Len(shapes) > 0

\* the export stage has run
ExportRan == exported.ret # "pending"

\* the items dispatch hands to the layout method
ItemsOf(p) == Get(Get(p, "content", <<>>), "items", <<>>)

CompleteItems(items) == \A i \in 1..Len(items) : DOMAIN items[i] = ItemKeys

OfKind(kinds) == SelectSeq(shapes, LAMBDA sh : sh.kind \in kinds)

Cards == OfKind({"card"})

\* two regions share no interior point
Disjoint(a, b) ==
    \/ RLe(RAdd(a.x, a.w), b.x)
    \/ RLe(RAdd(b.x, b.w), a.x)
    \/ RLe(RAdd(a.y, a.h), b.y)
    \/ RLe(RAdd(b.y, b.h), a.y)

\* region a lies in the canvas below the header band (the grid's start_y) and
\* within the left, right and bottom margins
InGridArea(v, a) ==
    /\ RLe(R(GridMargin), a.x)
    /\ RLe(RAdd(a.x, a.w), R(SlideW - GridMargin))
    /\ RLe(R(GridStartY(v)), a.y)
    /\ RLe(RAdd(a.y, a.h), R(SlideH - GridMargin))

\* the column x row table of the design
TableDims(n) ==
    IF n <= 3 THEN <<n, 1>>
    ELSE IF n = 4 THEN <<2, 2>>
    ELSE IF n <= 6 THEN <<3, 2>>
    ELSE <<3, Ceil(n, 3)>>

Region(sh) == <<sh.x, sh.y, sh.w, sh.h>>

\* the bridge was not there, or one of its calls raised
ExportFellBack == ~WIN32_AVAILABLE \/ bridge.fail_at # "none"

\* ------------------------------------------------------------------------
\* Properties
\* ------------------------------------------------------------------------
\* C1: with a writable preview location, in every variant the export operation
\* never reports a failure to its caller: no exception escapes it and it does
\* not return its failure value (False in openai_provider.py, None in
\* ppt_agent_provider.py; export of ppt_agent.py returns nothing), whether the
\* bridge is unavailable, succeeds or raises.
C1_ExportNeverReportsFailure ==
    (ExportRan /\ bridge.save_ok) =>
        /\ ~exported.raised
        /\ ~(variant = "openai_provider" /\ exported.ret = "False")
        /\ ~(variant = "ppt_agent_provider" /\ exported.ret = "None")

\* C2: with a writable preview location, after export an image file exists at
\* the preview path, and when the bridge was unavailable or one of its calls
\* raised that image is the placeholder.
C2_ImageExistsAfterExport ==
    (ExportRan /\ bridge.save_ok) =>
        /\ PreviewPath \in files
        /\ ExportFellBack => exported.image = "placeholder"

\* C3: for every item count N >= 1 the grid layout uses the columns x rows of
\* the table (1..3: N x 1, 4: 2 x 2, 5..6: 3 x 2, >= 7: 3 x ceil(N/3)): every
\* card drawn is the cell of that grid at the item's index.
C3_GridFollowsTable ==
    (RenderRan /\ strategy = "grid" /\ Len(ItemsOf(plan)) >= 1) =>
        LET t == TableDims(Len(ItemsOf(plan)))
        IN /\ GridDims(variant, Len(ItemsOf(plan))) = t
           /\ \A i \in 1..Len(Cards) :
                 Region(Cards[i]) = GridCell(variant, t[1], t[2], i - 1)

\* C4: for N in {0,1,2,3,4,5,6,7,10} items (with all their fields), grid layout
\* ends without error with exactly N card regions, pairwise non-overlapping,
\* each inside the canvas below the header band and within the margins.
C4_GridRegions ==
    (/\ RenderRan
     /\ strategy = "grid"
     /\ CompleteItems(ItemsOf(plan))
     /\ Len(ItemsOf(plan)) \in {0, 1, 2, 3, 4, 5, 6, 7, 10}) =>
        /\ err = NoErr
        /\ Len(Cards) = Len(ItemsOf(plan))
        /\ \A i, j \in 1..Len(Cards) : i # j => Disjoint(Cards[i], Cards[j])
        /\ \A i \in 1..Len(Cards) : InGridArea(variant, Cards[i])

\* C5: grid layout of an empty item sequence draws no card and raises no error.
C5_EmptyGridShortCircuits ==
    (RenderRan /\ strategy = "grid" /\ Len(ItemsOf(plan)) = 0) =>
        /\ err = NoErr
        /\ Len(Cards) = 0

\* C6: timeline layout of an empty item sequence raises no error and places no
\* marker, thumbnail or card.
C6_EmptyTimelineShortCircuits ==
    (RenderRan /\ strategy = "timeline" /\ Len(ItemsOf(plan)) = 0) =>
        /\ err = NoErr
        /\ Len(OfKind({"dot_out", "dot_in", "thumb", "card"})) = 0

\* C7: for a plan that dispatch renders without error, dispatch runs exactly
\* one layout method: the timeline method when meta.layout_type is "timeline",
\* the grid method for every other or absent value.
C7_StrategyFollowsLayoutType ==
    (RenderRan /\ err = NoErr) =>
        /\ strategy \in {"grid", "timeline"}
        /\ strategy = "timeline" <=>
               Get(Get(plan, "meta", <<>>), "layout_type", "grid") = "timeline"

\* C8: a plan whose content has no "items" key renders like one with no
\* items: dispatch ends without error and draws no card.
C8_AbsentItemsAreEmpty ==
    (RenderRan /\ HasKey(plan, "content") /\ ~HasKey(plan["content"], "items")) =>
        /\ err = NoErr
        /\ Len(Cards) = 0

\* C9: items that lack one of their fields (id, title, desc, specs, tags) are
\* rendered without error, one card per item.
C9_MissingFieldsTolerated ==
    (/\ RenderRan
     /\ HasKey(plan, "content")
     /\ HasKey(plan["content"], "items")
     /\ Len(ItemsOf(plan)) >= 1
     /\ ~CompleteItems(ItemsOf(plan))) =>
        /\ err = NoErr
        /\ Len(Cards) = Len(ItemsOf(plan))

\* the stages of one image request follow the chain callback, remote, mock:
\* each stage is called at most once and in that order, the remote backend
\* only first or right after a callback that gave no path, the placeholder
\* generator only right after a remote backend that gave no path, and no
\* stage after one that produced a path
ChainOrder(tr) ==
    LET rank(st) == CASE st = "callback" -> 1 [] st = "remote" -> 2 [] st = "mock" -> 3
    IN /\ Len(tr) >= 1
       /\ \A k \in 1..(Len(tr) - 1) :
             /\ rank(tr[k].stage) < rank(tr[k + 1].stage)
             /\ ~tr[k].produced
       /\ \A k \in 1..Len(tr) :
             /\ tr[k].stage = "remote" => (k = 1 \/ tr[k - 1].stage = "callback")
             /\ tr[k].stage = "mock" => (k > 1 /\ tr[k - 1].stage = "remote")

\* C10 as claimed: in ppt_agent.py every image request is resolved along the
\* chain callback, remote backend, placeholder generator.
C10_ChainOrderAlways ==
    variant = "ppt_agent" => \A j \in 1..Len(calls) : ChainOrder(calls[j])

\* C10 amended: in ppt_agent.py, when use_mock is false every image request is
\* resolved along the chain callback, remote backend, placeholder generator;
\* when use_mock is true only the placeholder generator is called.
C10_ChainOrderUnlessMock ==
    variant = "ppt_agent" =>
        \A j \in 1..Len(calls) :
            IF use_mock THEN calls[j] = <<Stage("mock", TRUE)>>
            ELSE ChainOrder(calls[j])

C10_Witness ==
    /\ variant = "ppt_agent"
    /\ ~use_mock
    /\ \E j \in 1..Len(calls) :
          calls[j] = <<Stage("callback", FALSE), Stage("remote", FALSE), Stage("mock", TRUE)>>
    /\ \E j \in 1..Len(calls) : calls[j] = <<Stage("callback", TRUE)>>

\* produce_assets has returned for the request's plan
ProduceRan ==
    \/ pc \in {"produced", "rendered", "saved", "export"}
    \/ pc = "done" /\ Get(result, "stage", "export") \in {"render", "save", "export"}

\* the image requests of plan p
ImagesOf(p) == Get(Get(p, "assets", <<>>), "images", <<>>)

\* the local_path of an image request, NoPath when unset
LocalPath(img) == Get(img, "local_path", NoPath)

\* C11: after produce_assets has returned, every image request of the plan has
\* its local_path set, whichever generation stages failed, in every variant and
\* also when mock images are disabled.
C11_EveryRequestResolved ==
    ProduceRan =>
        \A j \in 1..Len(ImagesOf(plan)) : LocalPath(ImagesOf(plan)[j]) # NoPath

\* C12: a local_path that is set is never assigned again: no step of the
\* request changes the local_path of an image request that already has one,
\* whether the plan arrived with it or produce_assets set it.
C12_LocalPathWrittenOnce ==
    [][(DOMAIN plan # {} /\ DOMAIN plan' # {}) =>
          \A j \in 1..Len(ImagesOf(plan)) :
              LocalPath(ImagesOf(plan)[j]) # NoPath =>
                  LocalPath(ImagesOf(plan')[j]) = LocalPath(ImagesOf(plan)[j])]_vars

\* C13: over any sequence of _create_tech_background_asset and produce_assets
\* calls on one (initially empty) assets directory, the background file is
\* written by the first call and by no later call, every call returns the same
\* path, and the file is there after the first call.
C13_BackgroundWrittenOnce ==
    /\ \A i \in 1..Len(bg_calls) :
          /\ bg_calls[i].path = BgPath
          /\ bg_calls[i].wrote <=> i = 1
    /\ Len(bg_calls) > 0 => BgPath \in files

\* produce_assets and later calls found the file the first call wrote
C13_Witness ==
    /\ pc = "agent"
    /\ Len(bg_calls) >= 3
    /\ Len(calls) > 0
    /\ bg_calls[1].wrote /\ ~bg_calls[2].wrote /\ ~bg_calls[3].wrote

\* C14: when export ends, every bridge handle it acquired (COM initialization,
\* application object, opened presentation) has been released, on normal
\* return and when a bridge call raises.
C14_HandlesReleased ==
    ExportRan => exported.acquired \subseteq exported.released

\* the plan has the three sections of a plan
WellFormed(p) == IsDict(p) /\ {"meta", "content", "assets"} \subseteq DOMAIN p

\* C15: in ppt_agent.py, when the planning collaborator returns valid JSON
\* that is no plan (not an object, or an object without meta, content or
\* assets), the request ends with a structured error result: no exception
\* escapes, and no later stage (asset production, rendering) runs on the value.
C15_MalformedPlanRecovered ==
    (variant = "ppt_agent" /\ DOMAIN plan # {} /\ ~WellFormed(plan)) =>
        /\ result.kind # "raised"
        /\ ~ProduceRan
        /\ ~RenderRan

\* the planning call failed: it raised, or its text is no JSON even without
\* code fences
PlanningFailed(r) == r.raises \/ json_loads(StripFences(r.text)).err # NoErr

\* the request stopped after planning and reported the failure
StoppedAtPlanning == pc = "done" /\ Get(result, "stage", "") = "planning"

\* C16: the variants have one planning-failure policy: when the planning call
\* failed, the request stopped and reported the failure exactly if every
\* variant's planner reports the failure on that call (none substitutes the
\* fallback plan), and went on with the fallback plan exactly if every
\* variant's planner substitutes it.
C16_SamePlanningFailurePolicy ==
    (pc # "start" /\ pc # "agent" /\ PlanningFailed(reply)) =>
        \A v \in Variants : (DOMAIN generate_plan(v, reply) = {}) <=> StoppedAtPlanning

\* the reply is a JSON value between an opening and a closing code fence
Fenced(r) ==
    /\ ~r.raises
    /\ Len(r.text) = 3
    /\ r.text[1] \in {FenceJson, Fence} /\ r.text[2].t = "json" /\ r.text[3] = Fence

\* C17: in every variant, a reply that is a valid JSON plan wrapped in code
\* fences (with or without the json tag) yields the plan of the unwrapped
\* payload.
C17_FencesStripped ==
    (pc = "planned" /\ Fenced(reply)) => plan = reply.text[2].v

C19_DescriptionBand ==
    (RenderRan /\ err = NoErr /\ strategy \in {"grid", "timeline"}) =>
        LET items == ItemsOf(plan)
            descs == OfKind({"desc"})
        IN /\ Len(Cards) = Len(items)
           /\ Len(descs) = Len(items)
           /\ \A i \in 1..Len(items) :
                 IF Len(Get(items[i], "specs", <<>>)) = 0
                 THEN RAdd(descs[i].y, descs[i].h) =
                          RSub(RAdd(Cards[i].y, Cards[i].h), R(Inches(20)))
                 ELSE descs[i].h = R(Inches(80))

\* the number of specs of the items up to index i
RECURSIVE SpecCount(_, _)
SpecCount(items, i) ==
    IF i = 0 THEN 0 ELSE Len(Get(items[i], "specs", <<>>)) + SpecCount(items, i - 1)

\* C20: for the items that were rendered, exactly one spec row is drawn per
\* spec, and every row has a positive height (the remaining height divided by
\* the number of specs, or the minimum when that is not positive).
C20_SpecRows ==
    (RenderRan /\ err = NoErr /\ strategy \in {"grid", "timeline"}) =>
        LET rows == OfKind({"row_key"})
        IN /\ Len(rows) = SpecCount(ItemsOf(plan), Len(ItemsOf(plan)))
           /\ \A i \in 1..Len(rows) : RLt(R(0), rows[i].h)

\* C21: the card renderer does not depend on the layout strategy: for every
\* card that was drawn, _draw_card_content called for the same item, region
\* and asset map from timeline layout gives the draw calls it gives when
\* called from grid layout.
C21_CardIndependentOfLayout ==
    (/\ RenderRan
     /\ err = NoErr
     /\ strategy \in {"grid", "timeline"}
     /\ variant # "ppt_agent_provider") =>
        \A i \in 1..Len(Cards) :
            LET c == Cards[i]
                item == ItemsOf(plan)[i]
            IN draw_card_content(variant, item, c.x, c.y, c.w, c.h, asset_map, files, TRUE) =
               draw_card_content(variant, item, c.x, c.y, c.w, c.h, asset_map, files, FALSE)

\* the position of a request in the order of the stages
StageRank(p) ==
    CASE p = "start" -> 0
      [] p = "planned" -> 1
      [] p = "produced" -> 2
      [] p = "rendered" -> 3
      [] p = "saved" -> 4
      [] p = "export" -> 5
      [] p = "done" -> 6

\* the title boxes of the cards, in drawing order
CardTitles(sh) == SelectSeq(sh, LAMBDA s : s.kind = "title")

\* C22: the stages of a request run in the order planning, asset resolution,
\* rendering, document save, export, each step finishing one stage: image
\* requests are resolved only in the asset stage (never once rendering has
\* started), shapes are drawn only in the rendering stage (never once the
\* document is saved), the document is saved only after rendering, the exporter
\* runs only after the save, and the cards drawn are those of the items in
\* input order.
C22_StagesInOrder ==
    [][/\ StageRank(pc') > StageRank(pc)
       /\ (calls' # calls \/ (pc # "start" /\ plan' # plan)) => pc = "planned"
       /\ shapes' # shapes => (pc = "produced" /\ PptPath \notin files)
       /\ (PptPath \in files' /\ PptPath \notin files) => pc = "rendered"
       /\ exported' # exported => (pc = "export" /\ PptPath \in files)
       /\ LET titles == CardTitles(shapes')
              items == ItemsOf(plan')
          IN /\ Len(titles) <= Len(items)
             /\ \A i \in 1..Len(titles) : titles[i].text = Get(items[i], "title", "")]_vars

\* a request with an image request and two cards went through every stage
C22_Witness ==
    /\ pc = "done"
    /\ ExportRan
    /\ PptPath \in files
    /\ Len(calls) >= 1
    /\ Len(Cards) >= 2

\* both requests are being served
BothRunning == \A r \in Requests : reqs.req[r].pc \notin {"idle", "done"}

\* C23: requests served at the same time are isolated on the filesystem: no
\* file path has been written by two requests that are both running, also
\* when they started within the same clock second.
C23_RequestsIsolated ==
    (pc = "serving" /\ BothRunning) =>
        \A w1, w2 \in reqs.written : w1.path = w2.path => w1.by = w2.by

\* C24: generate_image of the two ImageProvider implementations reports a
\* failure by returning None: no exception reaches the caller, and when the
\* exporter reported a failure the result is None and not an image.
C24_FailureIsNone ==
    (variant \in {"openai_provider", "ppt_agent_provider"} /\ pc = "done") =>
        /\ result.kind \in {"None", "image"}
        /\ (ExportRan /\ exported.ret \in {"False", "None"}) => result.kind = "None"

\* ------------------------------------------------------------------------
\* ExportService
\* ------------------------------------------------------------------------
ImagePaths == {"a.png", "b.png", "c.png"}

\* two decks on disk, each slide a sequence of shape types; gone.pptx does not exist
Decks == [d1 |-> << <<"PICTURE", "TEXT_BOX">>, <<"AUTO_SHAPE", "TABLE">> >>,
          d2 |-> << <<"TEXT_BOX">> >>]

PptxPaths == {"d1", "d2", "gone"}

OutputFiles == {None, "", "out"}

PathLists(S) == UNION {[1..n -> S] : n \in 0..MaxPaths}

\* "if output_file:" is false for None and for the empty string
Given(output_file) == output_file \notin {None, ""}

Returned(doc) == [err |-> NoErr, ret |-> [kind |-> "bytes", doc |-> doc], written |-> {}]

Saved(output_file, doc) ==
    [err |-> NoErr, ret |-> [kind |-> None], written |-> {[path |-> output_file, doc |-> doc]}]

Raised(e) == [err |-> e, ret |-> [kind |-> "raised"], written |-> {}]

save_or_return(output_file, doc) ==
    IF Given(output_file) THEN Saved(output_file, doc) ELSE Returned(doc)

\* a slide that fills the 10in x 5.625in page with the picture
PictureSlide(p) ==
    [picture |-> p, left |-> 0, top |-> 0, width |-> Inches(1000), height |-> Inches(1125) \div 2]

\* create_pptx_from_images with the os.path.exists test left out
create_pptx_from_images_no_skip(image_paths, output_file, disk) ==
    save_or_return(output_file,
        [format |-> "pptx", slides |-> [i \in 1..Len(image_paths) |-> PictureSlide(image_paths[i])]])

create_pptx_from_images(image_paths, output_file, disk) ==
    LET existing == SelectSeq(image_paths, LAMBDA p : p \in disk)
    IN save_or_return(output_file,
           [format |-> "pptx", slides |-> [i \in 1..Len(existing) |-> PictureSlide(existing[i])]])

\* create_pdf_from_images with the "if not images" test left out: images[0] fails
create_pdf_from_images_unchecked(image_paths, output_file, disk) ==
    LET images == SelectSeq(image_paths, LAMBDA p : p \in disk)
    IN IF images = <<>> THEN Raised("IndexError")
       ELSE save_or_return(output_file, [format |-> "pdf", pages |-> images])

create_pdf_from_images(image_paths, output_file, disk) ==
    LET images == SelectSeq(image_paths, LAMBDA p : p \in disk)
    IN IF images = <<>> THEN Raised("ValueError")
       ELSE save_or_return(output_file, [format |-> "pdf", pages |-> images])

\* _copy_shape copies pictures, auto shapes and text boxes and drops the rest
copy_slide(source_slide) ==
    SelectSeq(source_slide, LAMBDA t : t \in {"PICTURE", "AUTO_SHAPE", "TEXT_BOX"})

RECURSIVE append_decks(_, _)
append_decks(slides, paths) ==
    IF paths = <<>> THEN slides
    ELSE LET source == Decks[Head(paths)]
         IN append_decks(slides \o [i \in 1..Len(source) |-> copy_slide(source[i])], Tail(paths))

merge_pptx_files(pptx_paths, output_file) ==
    IF pptx_paths = <<>> THEN Raised("ValueError")
    ELSE IF \E i \in 1..Len(pptx_paths) : pptx_paths[i] \notin DOMAIN Decks
         THEN Raised("PackageNotFoundError")
         ELSE save_or_return(output_file,
                  [format |-> "pptx",
                   slides |-> append_decks(Decks[Head(pptx_paths)], Tail(pptx_paths))])

InitExportService ==
    /\ variant = "openai_provider"
    /\ WIN32_AVAILABLE = FALSE
    /\ pc = "export_service"
    /\ reqs = NoReqs
    /\ svc \in {[NoCall EXCEPT !.disk = d] : d \in SUBSET ImagePaths}
    /\ reply = NoReply
    /\ plan = NoPlan
    /\ use_mock = FALSE
    /\ files = {}
    /\ calls = <<>>
    /\ bg_calls = <<>>
    /\ now = 0
    /\ asset_map = <<>>
    /\ shapes = <<>>
    /\ strategy = "none"
    /\ err = NoErr
    /\ bridge = NoBridge
    /\ exported = NoExport
    /\ result = Pending

Call(op, paths, output_file, out) ==
    /\ pc = "export_service"
    /\ svc.op = "none"
    /\ svc' = [svc EXCEPT !.op = op, !.paths = paths, !.output_file = output_file, !.out = out]
    /\ UNCHANGED <<variant, WIN32_AVAILABLE, pc, reqs, reply, plan, use_mock, files, calls,
                   bg_calls, now, asset_map, shapes, strategy, err, bridge, exported, result>>

CreatePptxFromImages ==
    \E image_paths \in PathLists(ImagePaths), output_file \in OutputFiles :
        Call("create_pptx_from_images", image_paths, output_file,
             create_pptx_from_images(image_paths, output_file, svc.disk))

CreatePdfFromImages ==
    \E image_paths \in PathLists(ImagePaths), output_file \in OutputFiles :
        Call("create_pdf_from_images", image_paths, output_file,
             create_pdf_from_images(image_paths, output_file, svc.disk))

MergePptxFiles ==
    \E pptx_paths \in PathLists(PptxPaths), output_file \in OutputFiles :
        Call("merge_pptx_files", pptx_paths, output_file,
             merge_pptx_files(pptx_paths, output_file))

NextExportService ==
    \/ CreatePptxFromImages
    \/ CreatePdfFromImages
    \/ MergePptxFiles

SpecExportService == InitExportService /\ [][NextExportService]_vars

\* the positions of a list of paths whose path exists
ExistingAt(paths, disk) == {i \in 1..Len(paths) : paths[i] \in disk}

\* the slides of doc show the existing paths, one slide each, in the order of the list
SlidesMatch(doc, paths, disk) ==
    LET at == ExistingAt(paths, disk)
        n  == Len(doc.slides)
    IN /\ n = Cardinality(at)
       /\ \E f \in [1..n -> at] :
            /\ \A j, k \in 1..n : j < k => f[j] < f[k]
            /\ \A k \in 1..n : doc.slides[k].picture = paths[f[k]]

\* C25: create_pptx_from_images makes exactly one slide per input path that exists, in
\* input order, and skips a path that does not exist; without an output_file it returns
\* the bytes of the deck and writes nothing, with an output_file it writes the deck there
\* and returns None.
C25_OneSlidePerExistingImage ==
    svc.op = "create_pptx_from_images" =>
        /\ svc.out.err = NoErr
        /\ IF Given(svc.output_file)
           THEN /\ svc.out.ret.kind = None
                /\ Cardinality(svc.out.written) = 1
                /\ \A w \in svc.out.written :
                     w.path = svc.output_file /\ SlidesMatch(w.doc, svc.paths, svc.disk)
           ELSE /\ svc.out.ret.kind = "bytes"
                /\ svc.out.written = {}
                /\ SlidesMatch(svc.out.ret.doc, svc.paths, svc.disk)

C25_Witness ==
    /\ svc.op = "create_pptx_from_images"
    /\ Len(svc.paths) = 3
    /\ svc.paths[1] \in svc.disk
    /\ svc.paths[2] \notin svc.disk
    /\ svc.paths[3] \in svc.disk
    /\ svc.paths[1] # svc.paths[3]
    /\ Given(svc.output_file)
    /\ svc.out.ret.kind = None

\* C26: create_pdf_from_images raises ValueError and writes nothing when none of its
\* paths exists (the empty list included), merge_pptx_files raises ValueError and writes
\* nothing when its list is empty, and neither raises ValueError otherwise.
C26_EmptyInputRejected ==
    /\ svc.op = "create_pdf_from_images" =>
         IF ExistingAt(svc.paths, svc.disk) = {}
         THEN svc.out.err = "ValueError" /\ svc.out.written = {}
         ELSE svc.out.err # "ValueError"
    /\ svc.op = "merge_pptx_files" =>
         IF svc.paths = <<>>
         THEN svc.out.err = "ValueError" /\ svc.out.written = {}
         ELSE svc.out.err # "ValueError"

C26_Witness ==
    /\ svc.op = "create_pdf_from_images"
    /\ Len(svc.paths) = 2
    /\ ExistingAt(svc.paths, svc.disk) = {}
    /\ svc.disk # {}
    /\ Given(svc.output_file)
    /\ svc.out.err = "ValueError"
    /\ svc.out.written = {}

\* the draw calls of the card renderer
CardKinds == {"card", "thumb", "title", "desc", "sep", "row_bar", "row_key", "row_val"}

\* C27: the card renderer never issues a draw call with a negative width or height, for
\* any grid and any timeline of at least one item.
C27_NoNegativeSize ==
    \A i \in 1..Len(shapes) :
        shapes[i].kind \in CardKinds => (shapes[i].w.n >= 0 /\ shapes[i].h.n >= 0)

\* the positions of the image requests for target k whose local_path is set
SetFor(images, k) ==
    {j \in 1..Len(images) : images[j]["target_id"] = k /\ LocalPath(images[j]) # NoPath}

\* the items the asset map has a path for
ItemsWithAsset ==
    {i \in 1..Len(ItemsOf(plan)) : Get(ItemsOf(plan)[i], "id", None) \in DOMAIN asset_map}

\* C28: the asset map has a key k exactly when some image request with target_id k has
\* its local_path set, the value is the local_path of the last such request, and an
\* image request whose target_id is the id of no item causes no thumbnail.
C28_AssetMap ==
    RenderRan =>
        LET images == ImagesOf(plan)
        IN /\ \A j \in 1..Len(images) :
                images[j]["target_id"] \in DOMAIN asset_map <=>
                    SetFor(images, images[j]["target_id"]) # {}
           /\ \A k \in DOMAIN asset_map :
                /\ SetFor(images, k) # {}
                /\ \A j \in SetFor(images, k) :
                     (\A i \in SetFor(images, k) : i <= j) =>
                         asset_map[k] = images[j]["local_path"]
           /\ Len(OfKind({"thumb"})) <= Cardinality(ItemsWithAsset)

C28_Witness ==
    /\ RenderRan
    /\ Len(ImagesOf(plan)) = 2
    /\ Cardinality(SetFor(ImagesOf(plan), 1)) = 2
    /\ ImagesOf(plan)[1]["local_path"] # ImagesOf(plan)[2]["local_path"]
    /\ asset_map[1] = ImagesOf(plan)[2]["local_path"]
    /\ Len(OfKind({"thumb"})) = 1

\* generate_single_page_ppt has returned
AgentReturned == pc = "done" /\ variant = "ppt_agent"

\* C29: generate_single_page_ppt returns status success only if the document was saved.
\* When saving raises, the status is error, the snapshot is not written and the exporter
\* is never invoked; when only the snapshot write fails, the status is still success,
\* json_path is None and the exporter is invoked.
C29_SuccessOnlyIfSaved ==
    AgentReturned =>
        /\ Get(result, "status", "") = "success" => PptPath \in files
        /\ (RenderRan /\ err = NoErr /\ PptPath \notin files) =>
              /\ Get(result, "status", "") = "error"
              /\ JsonPath \notin files
              /\ exported = NoExport
        /\ (PptPath \in files /\ JsonPath \notin files) =>
              /\ Get(result, "status", "") = "success"
              /\ result.json_path = FALSE
              /\ exported # NoExport
        /\ (PptPath \in files /\ JsonPath \in files) =>
              /\ Get(result, "status", "") = "success"
              /\ result.json_path = TRUE

C29_Witness ==
    /\ AgentReturned
    /\ PptPath \in files
    /\ JsonPath \notin files
    /\ result.status = "success"
    /\ exported # NoExport

\* dicts a and b agree on every key other than those of except
SameExcept(a, b, except) ==
    /\ DOMAIN a \ except = DOMAIN b \ except
    /\ \A k \in DOMAIN a \ except : a[k] = b[k]

\* plans p and q differ at most in the local_path of their image requests
SameExceptLocalPath(p, q) ==
    /\ SameExcept(p, q, {"assets"})
    /\ HasKey(p, "assets") <=> HasKey(q, "assets")
    /\ HasKey(p, "assets") =>
          /\ SameExcept(p["assets"], q["assets"], {"images"})
          /\ HasKey(p["assets"], "images") <=> HasKey(q["assets"], "images")
          /\ Len(ImagesOf(p)) = Len(ImagesOf(q))
          /\ \A j \in 1..Len(ImagesOf(p)) :
                SameExcept(ImagesOf(p)[j], ImagesOf(q)[j], {"local_path"})

\* C30: produce_assets changes nothing in the plan except the local_path of its image
\* requests, and the plan the later stages work on is the plan it was given: once the
\* planner has returned, no step changes anything else in the plan.
C30_OnlyLocalPathChanges ==
    [][pc # "start" => SameExceptLocalPath(plan, plan')]_vars

C30_Witness ==
    /\ pc = "produced"
    /\ Len(ImagesOf(plan)) = 2
    /\ \E j \in 1..2 : Len(LocalPath(ImagesOf(plan)[j])) = 3
    /\ \E j \in 1..2 : LocalPath(ImagesOf(plan)[j]) = NoPath

====
